---- MODULE Spec2Model ----
(***************************************************************************)
(* The AI daemon of OneOnOne (src/Python/ai_daemon.py): a single-threaded  *)
(* loop that reads one JSON command per line from stdin, dispatches it     *)
(* against the daemon state (model, tokenizer, model_path, running) and    *)
(* prints one JSON response per line, with a token stream for generate.    *)
(* SIGINT/SIGTERM run _handle_shutdown preemptively on the main thread.    *)
(* The inference provider (mlx_lm load / generate) and the filesystem are  *)
(* the environment: their outcomes are drawn nondeterministically.         *)
(***************************************************************************)
EXTENDS Integers, Sequences, FiniteSets

VARIABLES
    model,       \* self.model: <<>> (None) or <<handle>>
    tokenizer,   \* self.tokenizer: <<>> (None) or <<handle>>
    model_path,  \* self.model_path: <<>> (None) or <<Path>>
    running,     \* self.running
    pc,          \* where the main thread is
    line,        \* run()'s local `line`: <<>> before the first read, else <<l>>
    nread,       \* number of readline() calls that returned a line
    out,         \* stdout: the lines printed so far, each tagged with its origin
    pathExists,  \* what model_path.exists() returned for the last load_model
    loadCalls,   \* number of times the provider's load() was invoked
    loadResult,  \* load() for the last load_model: "none" (not called), "pending", "ok", "raised"
    genCall,     \* <<>> or <<the arguments of the last call of the provider's generate()>>
    response,    \* the provider's token generator of the last generate() call
    whisper      \* a run of whisper_transcribe.py, a process of its own

\* the daemon process
daemonVars == <<model, tokenizer, model_path, running, pc, line, nread, out,
                pathExists, loadCalls, loadResult, genCall, response>>

vars == <<daemonVars, whisper>>

daemonState == <<model, tokenizer, model_path>>

(***************************************************************************)
(* Bounds of the model.                                                    *)
(***************************************************************************)
MaxCmds == 3      \* input lines read in one run
MaxTokens == 2    \* tokens the provider yields in one generation

None == <<>>
Some(v) == <<v>>

(***************************************************************************)
(* Paths.  A path string is [abs, parts]: whether it starts with "/" and   *)
(* its "/"-separated components as written ("" for a doubled slash).       *)
(***************************************************************************)
Home == <<"home">>

RECURSIVE DropEmpty(_)
DropEmpty(parts) ==
    IF parts = <<>> THEN <<>>
    ELSE IF Head(parts) \in {"", "."} THEN DropEmpty(Tail(parts))
    ELSE <<Head(parts)>> \o DropEmpty(Tail(parts))

\* pathlib.Path(s): empty and "." components are dropped, nothing is resolved
Path(s) == [abs |-> s.abs, parts |-> DropEmpty(s.parts)]

\* Path.expanduser(): a leading "~" component is replaced by the home directory
expanduser(p) ==
    IF ~p.abs /\ p.parts # <<>> /\ Head(p.parts) = "~"
    THEN [abs |-> TRUE, parts |-> Home \o Tail(p.parts)]
    ELSE p

RECURSIVE JoinParts(_)
JoinParts(parts) ==
    IF Len(parts) <= 1 THEN parts
    ELSE <<Head(parts), "/">> \o JoinParts(Tail(parts))

\* str(path), as the sequence of its pieces
str(p) ==
    IF ~p.abs /\ p.parts = <<>> THEN <<".">>
    ELSE (IF p.abs THEN <<"/">> ELSE <<>>) \o JoinParts(p.parts)

\* path.name: the final component
name(p) == IF p.parts = <<>> THEN "" ELSE p.parts[Len(p.parts)]

\* The path strings commands carry
ModelPaths ==
    { [abs |-> TRUE,  parts |-> <<"m", "a">>],        \* /m/a
      [abs |-> TRUE,  parts |-> <<"m", "", "a">>],    \* /m//a
      [abs |-> FALSE, parts |-> <<"a">>],             \* a
      [abs |-> FALSE, parts |-> <<"~", "b">>] }       \* ~/b

(***************************************************************************)
(* Input lines.  A line either is not JSON, or decodes to a value; the     *)
(* decoded objects are records holding the keys that are present.          *)
(***************************************************************************)
DefaultMaxTokens == 1024
DefaultTemperature == "0.7"
DefaultTopP == "0.9"
DefaultRepetitionPenalty == "1.0"

\* err is the message of the JSONDecodeError json.loads raises for the text
MalformedLines ==
    { [json |-> FALSE, text |-> "{oops",
       err |-> "Expecting property name enclosed in double quotes: line 1 column 2 (char 1)"] }

LoadLines ==
    { [json |-> TRUE, value |-> [type |-> "load_model", model_path |-> s]] : s \in ModelPaths }

GenerateLines ==
    { [json |-> TRUE, value |-> [type |-> "generate", prompt |-> "hi"]],
      [json |-> TRUE, value |-> [type |-> "generate", prompt |-> "hi", max_tokens |-> 8,
                                 temperature |-> "0.2", top_p |-> "0.5",
                                 repetition_penalty |-> "1.3"]] }

StatusLines == { [json |-> TRUE, value |-> [type |-> "status"]] }

ShutdownLines == { [json |-> TRUE, value |-> [type |-> "shutdown"]] }

\* an unrecognised type, and an object without a type
UnknownLines ==
    { [json |-> TRUE, value |-> [type |-> "bogus"]],
      [json |-> TRUE, value |-> [prompt |-> "hi"]] }

\* recognised types whose required key is missing: command[...] raises KeyError
MissingKeyLines ==
    { [json |-> TRUE, value |-> [type |-> "load_model"]],
      [json |-> TRUE, value |-> [type |-> "generate"]] }

\* dict.get(key, default)
Get(d, key, default) == IF key \in DOMAIN d THEN d[key] ELSE default

\* command.get("type"): None is rendered "None" by the f-string of line 192
command_type(l) == Get(l.value, "type", "None")

Tokens == {"x", "y"}

(***************************************************************************)
(* Responses.                                                              *)
(***************************************************************************)
ReadyMsg == [type |-> "ready", message |-> "AI Daemon started and ready"]

ShutdownMsg == [type |-> "shutdown", message |-> "Daemon shutting down"]

\* a missing path reported through the generic handler of lines 82-87
PathErrorMsgAsLoadError(p) ==
    [success |-> FALSE, error |-> <<"Model path does not exist: ">> \o str(p),
     type |-> "load_error"]

PathErrorMsg(p) ==
    [success |-> FALSE, error |-> <<"Model path does not exist: ">> \o str(p),
     type |-> "path_error"]

CachedMsg(p) ==
    [success |-> TRUE, path |-> str(p), name |-> name(p), cached |-> TRUE,
     message |-> "Model already loaded in daemon"]

LoadedMsg(p) ==
    [success |-> TRUE, path |-> str(p), name |-> name(p), cached |-> FALSE,
     message |-> "Model loaded successfully"]

LoadErrorMsg(e) == [success |-> FALSE, error |-> <<e>>, type |-> "load_error"]

NoModelMsg == [type |-> "error", error |-> <<"No model loaded">>]

TokenMsg(t) == [type |-> "token", token |-> t]

CompleteMsg == [type |-> "complete", message |-> "Generation finished"]

GenErrorMsg(e) == [type |-> "error", error |-> <<e>>]

\* model_loaded written as a constant, as running is
StatusMsgNotLoaded ==
    [type |-> "status", running |-> TRUE, model_loaded |-> FALSE,
     model_path |-> IF model_path # None THEN Some(str(model_path[1])) ELSE None]

StatusMsg ==
    [type |-> "status", running |-> TRUE, model_loaded |-> (model # None),
     model_path |-> IF model_path # None THEN Some(str(model_path[1])) ELSE None]

UnknownMsg(t) == [type |-> "error", error |-> <<"Unknown command type: ", t>>]

InvalidJsonMsg(l) == [type |-> "error", error |-> <<"Invalid JSON: ", l.err>>]

UnexpectedMsg(e) == [type |-> "error", error |-> <<"Unexpected error: ", e>>]

\* print(json.dumps(msg), flush=True) from the main loop, while line n is processed
Emit(o, n, msg) == Append(o, [cmd |-> n, by |-> "run", msg |-> msg])

\* the same from the signal handler
SignalEmit(o, n, msg) == Append(o, [cmd |-> n, by |-> "signal", msg |-> msg])

(***************************************************************************)
(* The provider's handles: load() number n returns a fresh pair.           *)
(***************************************************************************)
ModelHandle(n) == [handle |-> "model", id |-> n]
TokenizerHandle(n) == [handle |-> "tokenizer", id |-> n]

\* no generate() call yet; cmd is the input line a call was made for
NoResponse == [state |-> "none", yielded |-> <<>>, cmd |-> 0]

\* no run of the transcription script
WhisperIdle ==
    [pc |-> "idle", argv |-> <<>>, exists |-> FALSE, hasWhisper |-> FALSE,
     hasMlx |-> FALSE, env |-> <<>>, modelName |-> <<>>, result |-> <<>>,
     stdout |-> <<>>, status |-> <<>>, failure |-> "none"]

DaemonInit ==
    /\ model = None
    /\ tokenizer = None
    /\ model_path = None
    /\ running = TRUE
    /\ pc = "start"
    /\ line = None
    /\ nread = 0
    /\ out = <<>>
    /\ pathExists = FALSE
    /\ loadCalls = 0
    /\ loadResult = "none"
    /\ genCall = None
    /\ response = NoResponse

Init ==
    /\ DaemonInit
    /\ whisper = WhisperIdle

\* `while self.running:` at the end of an iteration
WhileRunning(r) == IF r THEN "loop" ELSE "returned"

\* run(): the ready message
Startup ==
    /\ pc = "start"
    /\ out' = Emit(out, 0, ReadyMsg)
    /\ pc' = "loop"
    /\ UNCHANGED <<whisper, model, tokenizer, model_path, running, line, nread,
                   pathExists, loadCalls, loadResult, genCall, response>>

\* readline() returns a line: the guard of every command action
CanRead == pc = "loop" /\ running /\ nread < MaxCmds

Read(l) ==
    /\ CanRead
    /\ line' = Some(l)
    /\ nread' = nread + 1

\* EOF handled like the shutdown command: the shutdown response, then break
ReadEOFAnnounces ==
    /\ pc = "loop" /\ running
    /\ out' = Emit(out, nread, ShutdownMsg)
    /\ pc' = "returned"
    /\ UNCHANGED <<whisper, model, tokenizer, model_path, running, line, nread,
                   pathExists, loadCalls, loadResult, genCall, response>>

\* readline() returns "": EOF, break
ReadEOF ==
    /\ pc = "loop" /\ running
    /\ pc' = "returned"
    /\ UNCHANGED <<whisper, model, tokenizer, model_path, running, line, nread, out,
                   pathExists, loadCalls, loadResult, genCall, response>>

\* the JSONDecodeError caught outside the while loop: reported, and run() returns
ReadMalformedStops ==
    \E l \in MalformedLines :
        /\ Read(l)
        /\ out' = Emit(out, nread', InvalidJsonMsg(l))
        /\ pc' = "returned"
        /\ UNCHANGED <<whisper, model, tokenizer, model_path, running,
                       pathExists, loadCalls, loadResult, genCall, response>>

\* json.loads raises JSONDecodeError
ReadMalformed ==
    \E l \in MalformedLines :
        /\ Read(l)
        /\ out' = Emit(out, nread', InvalidJsonMsg(l))
        /\ pc' = WhileRunning(running)
        /\ UNCHANGED <<whisper, model, tokenizer, model_path, running,
                       pathExists, loadCalls, loadResult, genCall, response>>

\* the cache check left out: every load with an existing path reloads
CacheHitNever(p) == FALSE

\* lines 60-61: the cache check
CacheHit(p) == model # None /\ model_path = Some(p)

\* the path load_model works with (line 51)
LoadPath(l) == expanduser(Path(l.value.model_path))

\* load_model, lines 48-68: the path check, the cache check, and on a miss the
\* call of the provider's load(), which is then in progress
CmdLoadModel ==
    \E l \in LoadLines, ex \in BOOLEAN :
        /\ Read(l)
        /\ pathExists' = ex
        /\ IF ~ex
           THEN /\ out' = Emit(out, nread', PathErrorMsg(LoadPath(l)))
                /\ pc' = WhileRunning(running)
                /\ loadResult' = "none"
                /\ UNCHANGED loadCalls
           ELSE IF CacheHit(LoadPath(l))
           THEN /\ out' = Emit(out, nread', CachedMsg(LoadPath(l)))
                /\ pc' = WhileRunning(running)
                /\ loadResult' = "none"
                /\ UNCHANGED loadCalls
           ELSE /\ loadCalls' = loadCalls + 1
                /\ loadResult' = "pending"
                /\ pc' = "loading"
                /\ out' = out
        /\ UNCHANGED <<whisper, model, tokenizer, model_path, running, genCall, response>>

\* the new pair stored but line 72 left out: model_path keeps its old value
LoadReturnKeepsPath ==
    /\ pc = "loading"
    /\ model' = Some(ModelHandle(loadCalls))
    /\ tokenizer' = Some(TokenizerHandle(loadCalls))
    /\ loadResult' = "ok"
    /\ out' = Emit(out, nread, LoadedMsg(LoadPath(line[1])))
    /\ pc' = WhileRunning(running)
    /\ UNCHANGED <<whisper, model_path, running, line, nread, pathExists, loadCalls,
                   genCall, response>>

\* lines 71-80: load() returned the pair
LoadReturn ==
    /\ pc = "loading"
    /\ model' = Some(ModelHandle(loadCalls))
    /\ tokenizer' = Some(TokenizerHandle(loadCalls))
    /\ model_path' = Some(LoadPath(line[1]))
    /\ loadResult' = "ok"
    /\ out' = Emit(out, nread, LoadedMsg(LoadPath(line[1])))
    /\ pc' = WhileRunning(running)
    /\ UNCHANGED <<whisper, running, line, nread, pathExists, loadCalls, genCall, response>>

\* the resident pair dropped before load() is called, so a failed load leaves none
LoadRaiseDropsModel ==
    /\ pc = "loading"
    /\ loadResult' = "raised"
    /\ model' = None
    /\ tokenizer' = None
    /\ model_path' = None
    /\ out' = Emit(out, nread, LoadErrorMsg("LoadError"))
    /\ pc' = WhileRunning(running)
    /\ UNCHANGED <<whisper, running, line, nread, pathExists, loadCalls, genCall, response>>

\* lines 71, 82-87: load() raised
LoadRaise ==
    /\ pc = "loading"
    /\ loadResult' = "raised"
    /\ out' = Emit(out, nread, LoadErrorMsg("LoadError"))
    /\ pc' = WhileRunning(running)
    /\ UNCHANGED <<whisper, model, tokenizer, model_path, running, line, nread,
                   pathExists, loadCalls, genCall, response>>

\* run(), lines 163-169: the arguments AIDaemon.generate is called with
GenerateArgs(c) ==
    [prompt |-> c.prompt,
     max_tokens |-> Get(c, "max_tokens", DefaultMaxTokens),
     temperature |-> Get(c, "temperature", DefaultTemperature),
     top_p |-> Get(c, "top_p", DefaultTopP),
     repetition_penalty |-> Get(c, "repetition_penalty", DefaultRepetitionPenalty)]

\* lines 107-113: the arguments the provider's generate() is called with
ProviderArgs(a) ==
    [model |-> model[1], tokenizer |-> tokenizer[1], prompt |-> a.prompt,
     max_tokens |-> a.max_tokens, verbose |-> FALSE]

\* the `return` of line 103 left out: after the error the provider is called anyway
CmdGenerateNoReturn ==
    \E l \in GenerateLines :
        /\ Read(l)
        /\ out' = IF model = None THEN Emit(out, nread', NoModelMsg) ELSE out
        /\ genCall' = Some([model |-> model, tokenizer |-> tokenizer,
                            prompt |-> l.value.prompt,
                            max_tokens |-> Get(l.value, "max_tokens", DefaultMaxTokens),
                            verbose |-> FALSE])
        /\ response' = [state |-> "active", yielded |-> <<>>, cmd |-> nread']
        /\ pc' = "streaming"
        /\ UNCHANGED <<whisper, model, tokenizer, model_path, running,
                       pathExists, loadCalls, loadResult>>

\* run() 161-163 and generate() 98-113: without a model the single error;
\* with one, the provider's generate() is called and streaming begins
CmdGenerate ==
    \E l \in GenerateLines :
        /\ Read(l)
        /\ IF model = None
           THEN /\ out' = Emit(out, nread', NoModelMsg)
                /\ pc' = WhileRunning(running)
                /\ UNCHANGED <<genCall, response>>
           ELSE /\ genCall' = Some(ProviderArgs(GenerateArgs(l.value)))
                /\ response' = [state |-> "active", yielded |-> <<>>, cmd |-> nread']
                /\ pc' = "streaming"
                /\ out' = out
        /\ UNCHANGED <<whisper, model, tokenizer, model_path, running,
                       pathExists, loadCalls, loadResult>>

\* lines 116-123 (and 126-129 after the break): the provider yields a token
GenToken ==
    \E t \in Tokens :
        /\ pc = "streaming"
        /\ Len(response.yielded) < MaxTokens
        /\ response' = [response EXCEPT !.yielded = Append(@, t)]
        /\ IF ~running
           THEN /\ out' = Emit(out, nread, CompleteMsg)
                /\ pc' = WhileRunning(running)
           ELSE /\ out' = Emit(out, nread, TokenMsg(t))
                /\ pc' = pc
        /\ UNCHANGED <<whisper, model, tokenizer, model_path, running, line, nread,
                       pathExists, loadCalls, loadResult, genCall>>

\* the terminal yield of lines 126-129 left out
GenExhaustedNoComplete ==
    /\ pc = "streaming"
    /\ response' = [response EXCEPT !.state = "exhausted"]
    /\ pc' = WhileRunning(running)
    /\ UNCHANGED <<whisper, model, tokenizer, model_path, running, line, nread, out,
                   pathExists, loadCalls, loadResult, genCall>>

\* lines 116, 126-129: the provider's sequence is exhausted
GenExhausted ==
    /\ pc = "streaming"
    /\ response' = [response EXCEPT !.state = "exhausted"]
    /\ out' = Emit(out, nread, CompleteMsg)
    /\ pc' = WhileRunning(running)
    /\ UNCHANGED <<whisper, model, tokenizer, model_path, running, line, nread,
                   pathExists, loadCalls, loadResult, genCall>>

\* the model unloaded when a generation fails
GenRaiseUnloads ==
    /\ pc = "streaming"
    /\ response' = [response EXCEPT !.state = "raised"]
    /\ out' = Emit(out, nread, GenErrorMsg("GenerateError"))
    /\ model' = None
    /\ tokenizer' = None
    /\ model_path' = None
    /\ pc' = WhileRunning(running)
    /\ UNCHANGED <<whisper, running, line, nread, pathExists, loadCalls, loadResult, genCall>>

\* the error reported and then the terminal marker printed all the same
GenRaiseThenComplete ==
    /\ pc = "streaming"
    /\ response' = [response EXCEPT !.state = "raised"]
    /\ out' = Emit(Emit(out, nread, GenErrorMsg("GenerateError")), nread, CompleteMsg)
    /\ pc' = WhileRunning(running)
    /\ UNCHANGED <<whisper, model, tokenizer, model_path, running, line, nread,
                   pathExists, loadCalls, loadResult, genCall>>

\* lines 131-135: the provider raised, before the first token or after some
GenRaise ==
    /\ pc = "streaming"
    /\ response' = [response EXCEPT !.state = "raised"]
    /\ out' = Emit(out, nread, GenErrorMsg("GenerateError"))
    /\ pc' = WhileRunning(running)
    /\ UNCHANGED <<whisper, model, tokenizer, model_path, running, line, nread,
                   pathExists, loadCalls, loadResult, genCall>>

\* lines 172-179
CmdStatus ==
    \E l \in StatusLines :
        /\ Read(l)
        /\ out' = Emit(out, nread', StatusMsg)
        /\ pc' = WhileRunning(running)
        /\ UNCHANGED <<whisper, model, tokenizer, model_path, running,
                       pathExists, loadCalls, loadResult, genCall, response>>

\* lines 181-187: clear the flag, print, break
CmdShutdown ==
    \E l \in ShutdownLines :
        /\ Read(l)
        /\ running' = FALSE
        /\ out' = Emit(out, nread', ShutdownMsg)
        /\ pc' = "returned"
        /\ UNCHANGED <<whisper, model, tokenizer, model_path,
                       pathExists, loadCalls, loadResult, genCall, response>>

\* lines 189-193
CmdUnknown ==
    \E l \in UnknownLines :
        /\ Read(l)
        /\ out' = Emit(out, nread', UnknownMsg(command_type(l)))
        /\ pc' = WhileRunning(running)
        /\ UNCHANGED <<whisper, model, tokenizer, model_path, running,
                       pathExists, loadCalls, loadResult, genCall, response>>

\* the key command[...] (lines 158, 164) does not find
MissingKey(l) == IF l.value.type = "load_model" THEN "'model_path'" ELSE "'prompt'"

\* the KeyError not caught: no response, and the process dies of the exception
CmdMissingKeyCrashes ==
    \E l \in MissingKeyLines :
        /\ Read(l)
        /\ pc' = "exited"
        /\ UNCHANGED <<whisper, model, tokenizer, model_path, running, out,
                       pathExists, loadCalls, loadResult, genCall, response>>

\* lines 158/164 raise KeyError, caught at 201-205
CmdMissingKey ==
    \E l \in MissingKeyLines :
        /\ Read(l)
        /\ out' = Emit(out, nread', UnexpectedMsg(MissingKey(l)))
        /\ pc' = WhileRunning(running)
        /\ UNCHANGED <<whisper, model, tokenizer, model_path, running,
                       pathExists, loadCalls, loadResult, genCall, response>>

\* the handler without its sys.exit(0): the main thread resumes where it was
HandleShutdownNoExit ==
    /\ running' = FALSE
    /\ out' = SignalEmit(out, nread, ShutdownMsg)
    /\ UNCHANGED <<whisper, model, tokenizer, model_path, pc, line, nread,
                   pathExists, loadCalls, loadResult, genCall, response>>

\* _handle_shutdown, lines 39-46: clear the flag, print, sys.exit(0).  It runs
\* on the main thread, which does not resume: SystemExit is no Exception, so
\* neither `except Exception` (lines 82, 131, 201) catches it.
HandleShutdown ==
    /\ running' = FALSE
    /\ out' = SignalEmit(out, nread, ShutdownMsg)
    /\ pc' = "exited"
    /\ UNCHANGED <<whisper, model, tokenizer, model_path, line, nread,
                   pathExists, loadCalls, loadResult, genCall, response>>

\* SIGINT or SIGTERM is delivered, at any point before the process has ended
Signal ==
    /\ pc # "exited"
    /\ HandleShutdown

\* lines 208-210: run() has returned and the process ends
Exit ==
    /\ pc = "returned"
    /\ pc' = "exited"
    /\ UNCHANGED <<whisper, model, tokenizer, model_path, running, line, nread, out,
                   pathExists, loadCalls, loadResult, genCall, response>>

Next ==
    \/ Startup
    \/ ReadEOF
    \/ ReadMalformed
    \/ CmdLoadModel
    \/ LoadReturn
    \/ LoadRaise
    \/ CmdGenerate
    \/ GenToken
    \/ GenExhausted
    \/ GenRaise
    \/ CmdStatus
    \/ CmdShutdown
    \/ CmdUnknown
    \/ CmdMissingKey
    \/ Signal
    \/ Exit

Spec == Init /\ [][Next]_vars

(***************************************************************************)
(* whisper_transcribe.py: one run of the script, from main() to the end of *)
(* the process.  Its command line, the filesystem, the installed libraries *)
(* and the WHISPER_MODEL variable are drawn at the start; what the         *)
(* libraries return or raise is drawn when they are called.  `failure`     *)
(* records which failure, if any, the run met.                             *)
(***************************************************************************)
MaxSegments == 2   \* segments in a transcription result

\* text is a sequence of pieces, " " being whitespace
RECURSIVE LStrip(_)
LStrip(t) == IF t # <<>> /\ Head(t) = " " THEN LStrip(Tail(t)) ELSE t

RECURSIVE RStrip(_)
RStrip(t) ==
    IF t # <<>> /\ t[Len(t)] = " " THEN RStrip(SubSeq(t, 1, Len(t) - 1)) ELSE t

\* str.strip()
Strip(t) == RStrip(LStrip(t))

\* the segments a library may report, some keys absent
SegmentChoices ==
    { [text |-> <<" ", "a">>, start |-> 0, end |-> 2, no_speech_prob |-> 1],
      [text |-> <<"b", " ">>] }

SegmentSeqs == UNION { [1..n -> SegmentChoices] : n \in 0..MaxSegments }

\* what transcribe() may return: a full result per segment list, and an empty dict
TranscribeResults ==
    { [text |-> <<" ", "a", " ", "b", " ">>, segments |-> sg, language |-> "de"]
        : sg \in SegmentSeqs } \cup { <<>> }

\* lines 67-74
FormatSegment(sg) ==
    [text |-> Strip(Get(sg, "text", <<>>)),
     start |-> Get(sg, "start", 0),
     end |-> Get(sg, "end", 0),
     confidence |-> Get(sg, "no_speech_prob", 0)]

\* lines 66-80
FormatResult(res) ==
    LET segs == Get(res, "segments", <<>>)
    IN  [text |-> Strip(Get(res, "text", <<>>)),
         segments |-> [i \in 1..Len(segs) |-> FormatSegment(segs[i])],
         language |-> Get(res, "language", "en")]

\* lines 31-35: the mlx-whisper fallback passes the segments on as they are
MlxResult(res) ==
    [text |-> Get(res, "text", <<>>),
     segments |-> Get(res, "segments", <<>>),
     language |-> Get(res, "language", "en")]

WhisperError(e) == [error |-> e, text |-> <<>>, segments |-> <<>>, language |-> "en"]

\* sys.exit(n), or the process ending: status n
WhisperExit(w, n) == [w EXCEPT !.pc = "exited", !.status = <<n>>]

InitTranscribe ==
    /\ DaemonInit
    /\ whisper \in
         { [WhisperIdle EXCEPT !.pc = "main", !.argv = a, !.exists = ex,
                               !.hasWhisper = hw, !.hasMlx = hm, !.env = ev]
             : a \in {<<>>, <<"/audio.wav">>}, ex \in BOOLEAN, hw \in BOOLEAN,
               hm \in BOOLEAN, ev \in {<<>>, <<"large-v3">>} }

\* main(), lines 92-99: no argument
MainUsage ==
    /\ whisper.pc = "main"
    /\ whisper.argv = <<>>
    /\ whisper' = WhisperExit(
           [whisper EXCEPT !.failure = "usage",
                           !.stdout = Append(@, WhisperError(
                               <<"Usage: whisper_transcribe.py <audio_file>">>))], 1)
    /\ UNCHANGED daemonVars

\* main(), lines 101-110: the file does not exist
MainFileNotFound ==
    /\ whisper.pc = "main"
    /\ whisper.argv # <<>>
    /\ ~whisper.exists
    /\ whisper' = WhisperExit(
           [whisper EXCEPT !.failure = "not_found",
                           !.stdout = Append(@, WhisperError(
                               <<"File not found: ", whisper.argv[1]>>))], 1)
    /\ UNCHANGED daemonVars

\* main() line 112 and transcribe_audio(), lines 24-42: which library is there
TranscribeImport ==
    /\ whisper.pc = "main"
    /\ whisper.argv # <<>>
    /\ whisper.exists
    /\ whisper' =
         IF whisper.hasWhisper THEN [whisper EXCEPT !.pc = "load"]
         ELSE IF whisper.hasMlx THEN [whisper EXCEPT !.pc = "mlx"]
         ELSE [whisper EXCEPT !.pc = "print", !.failure = "not_installed",
                  !.result = <<WhisperError(<<"Whisper not installed. Install with: pip install openai-whisper or pip install mlx-whisper">>)>>]
    /\ UNCHANGED daemonVars

\* lines 29-35: mlx_whisper.transcribe returned
MlxTranscribe ==
    \E res \in TranscribeResults :
        /\ whisper.pc = "mlx"
        /\ whisper' = [whisper EXCEPT !.pc = "print", !.result = <<MlxResult(res)>>]
        /\ UNCHANGED daemonVars

\* line 30: mlx_whisper.transcribe raised; only ImportError is caught (line 36),
\* so the exception ends the process: a traceback on stderr, status 1
MlxTranscribeRaise ==
    /\ whisper.pc = "mlx"
    /\ whisper' = WhisperExit([whisper EXCEPT !.failure = "transcribe"], 1)
    /\ UNCHANGED daemonVars

\* lines 45-48: whisper.load_model(model_name) returned
WhisperLoad ==
    /\ whisper.pc = "load"
    /\ whisper' = [whisper EXCEPT !.pc = "transcribe",
                      !.modelName = IF whisper.env # <<>> THEN whisper.env ELSE <<"base">>]
    /\ UNCHANGED daemonVars

\* lines 47-55: load_model raised
WhisperLoadRaise ==
    /\ whisper.pc = "load"
    /\ whisper' = [whisper EXCEPT !.pc = "print", !.failure = "load",
                      !.result = <<WhisperError(
                          <<"Failed to load Whisper model: ", "LoadError">>)>>]
    /\ UNCHANGED daemonVars

\* lines 58-80: model.transcribe returned
WhisperTranscribe ==
    \E res \in TranscribeResults :
        /\ whisper.pc = "transcribe"
        /\ whisper' = [whisper EXCEPT !.pc = "print", !.result = <<FormatResult(res)>>]
        /\ UNCHANGED daemonVars

\* lines 82-88: model.transcribe raised
WhisperTranscribeRaise ==
    /\ whisper.pc = "transcribe"
    /\ whisper' = [whisper EXCEPT !.pc = "print", !.failure = "transcribe",
                      !.result = <<WhisperError(
                          <<"Transcription failed: ", "TranscribeError">>)>>]
    /\ UNCHANGED daemonVars

\* main(), line 113, and the end of the script: the result printed, status 0
MainPrint ==
    /\ whisper.pc = "print"
    /\ whisper' = WhisperExit([whisper EXCEPT !.stdout = Append(@, whisper.result[1])], 0)
    /\ UNCHANGED daemonVars

NextTranscribe ==
    \/ MainUsage
    \/ MainFileNotFound
    \/ TranscribeImport
    \/ MlxTranscribe
    \/ MlxTranscribeRaise
    \/ WhisperLoad
    \/ WhisperLoadRaise
    \/ WhisperTranscribe
    \/ WhisperTranscribeRaise
    \/ MainPrint

SpecTranscribe == InitTranscribe /\ [][NextTranscribe]_vars
(***************************************************************************)
(* Vocabulary of the properties.                                           *)
(***************************************************************************)
\* the responses the main loop printed while input line k was processed
RunOut(k) ==
    LET sel == SelectSeq(out, LAMBDA e : e.cmd = k /\ e.by = "run")
    IN  [i \in 1..Len(sel) |-> sel[i].msg]

\* the responses the main loop printed, whatever the line
AllRunOut ==
    LET sel == SelectSeq(out, LAMBDA e : e.by = "run")
    IN  [i \in 1..Len(sel) |-> sel[i].msg]

TokenMsgsOf(toks) == [i \in 1..Len(toks) |-> [type |-> "token", token |-> toks[i]]]

\* the line being processed is a load_model / generate command with its key
IsLoadLine(l) ==
    l # None /\ l[1].json /\ Get(l[1].value, "type", "None") = "load_model"
             /\ "model_path" \in DOMAIN l[1].value

IsGenerateLine(l) ==
    l # None /\ l[1].json /\ Get(l[1].value, "type", "None") = "generate"
             /\ "prompt" \in DOMAIN l[1].value

\* this step prints the main loop's response to a load_model command
LoadAnswered ==
    /\ IsLoadLine(line')
    /\ Len(out') = Len(out) + 1
    /\ out'[Len(out')].by = "run"

LastMsg(o) == o[Len(o)].msg

\* a response's "type", which the successful load results do not carry
MsgType(m) == Get(m, "type", "none")

\* this step reads a load_model command while the path it names is loaded
SecondLoad ==
    /\ nread' = nread + 1
    /\ IsLoadLine(line')
    /\ pathExists'
    /\ model # None
    /\ model_path = Some(expanduser(Path(line'[1].value.model_path)))

SecondLoadCached ==
    /\ LoadAnswered
    /\ LastMsg(out').success = TRUE
    /\ LastMsg(out').cached = TRUE
    /\ loadCalls' = loadCalls
    /\ UNCHANGED daemonState

(***************************************************************************)
(* C1 as stated: every load_model command whose path exists is answered    *)
(* with success=true, and a load_model for the path of the resident model  *)
(* is answered success=true, cached=true without another call of load().   *)
(* It fails when the provider's load() raises.                             *)
(***************************************************************************)
C1_AsStated ==
    [][ /\ (LoadAnswered /\ pathExists') => LastMsg(out').success = TRUE
        /\ SecondLoad => SecondLoadCached ]_vars

(***************************************************************************)
(* C1, amended: every load_model command whose path exists and for which   *)
(* the provider's load(), if called, does not raise is answered with       *)
(* success=true; and a load_model command for the path of the resident     *)
(* model (the path still existing) is answered success=true, cached=true,  *)
(* with the provider's load count and the daemon state unchanged.          *)
(***************************************************************************)
C1_LoadSucceedsAndCaches ==
    [][ /\ (LoadAnswered /\ pathExists' /\ loadResult' # "raised")
              => LastMsg(out').success = TRUE
        /\ SecondLoad => SecondLoadCached ]_vars

\* a model was loaded once and a later load_model of its path was a cache hit
C1_Witness ==
    /\ nread >= 2
    /\ loadCalls = 1
    /\ IsLoadLine(line)
    /\ RunOut(nread) # <<>>
    /\ RunOut(nread)[1].success = TRUE
    /\ RunOut(nread)[1].cached = TRUE

(***************************************************************************)
(* C2: a load_model command whose path does not exist, in any daemon       *)
(* state, gets exactly one response, success=false, type "path_error",     *)
(* error "Model path does not exist: " followed by the path (as line 51    *)
(* made it); load() is not called and model, tokenizer and model_path are  *)
(* unchanged.                                                              *)
(***************************************************************************)
C2_MissingPath ==
    /\ [][ (nread' = nread + 1 /\ IsLoadLine(line') /\ ~pathExists') =>
             /\ out' = Append(out,
                   [cmd |-> nread', by |-> "run",
                    msg |-> [success |-> FALSE, type |-> "path_error",
                             error |-> <<"Model path does not exist: ">>
                                 \o str(expanduser(Path(line'[1].value.model_path)))]])
             /\ loadCalls' = loadCalls
             /\ UNCHANGED daemonState ]_vars
    /\ [](IsLoadLine(line) /\ ~pathExists => Len(RunOut(nread)) = 1 /\ loadResult = "none")

\* a missing path named while a model is resident: the model stays
C2_Witness ==
    /\ IsLoadLine(line)
    /\ ~pathExists
    /\ model # None
    /\ RunOut(nread) # <<>>
    /\ RunOut(nread)[1].type = "path_error"

(***************************************************************************)
(* C3: when the provider's load() raises, the response is success=false,   *)
(* type "load_error", and model, tokenizer and model_path are what they    *)
(* were (a resident model still hits the cache for its path); the daemon   *)
(* state changes only in the step in which load() returned, to the new     *)
(* pair and its path.                                                      *)
(***************************************************************************)
C3_FailedLoadKeepsState ==
    [][ /\ (pc = "loading" /\ loadResult' = "raised") =>
             /\ LoadAnswered
             /\ LastMsg(out').success = FALSE
             /\ LastMsg(out').type = "load_error"
             /\ UNCHANGED daemonState
             /\ (model # None => (CacheHit(model_path[1]))')
        /\ (daemonState' # daemonState) =>
             /\ pc = "loading" /\ loadResult' = "ok"
             /\ model' = Some([handle |-> "model", id |-> loadCalls])
             /\ tokenizer' = Some([handle |-> "tokenizer", id |-> loadCalls])
             /\ model_path' = Some(expanduser(Path(line[1].value.model_path))) ]_vars

\* a model is resident, a load of another path failed, and the next generate
\* was given the resident model
C3_Witness ==
    /\ loadCalls = 2
    /\ loadResult = "raised"
    /\ model = Some([handle |-> "model", id |-> 1])
    /\ genCall # None
    /\ genCall[1].model = [handle |-> "model", id |-> 1]
    /\ response.cmd = nread
(***************************************************************************)
(* C4: when a generation ends with the provider's sequence exhausted after *)
(* N tokens (N >= 0), the responses of that generate command are exactly   *)
(* the N token responses, in the provider's order, followed by exactly one *)
(* complete response, and nothing of that command follows it.              *)
(***************************************************************************)
C4_TokensThenComplete ==
    response.state = "exhausted" =>
        RunOut(response.cmd) =
            TokenMsgsOf(response.yielded)
                \o <<[type |-> "complete", message |-> "Generation finished"]>>

\* a completed generation of two different tokens, and a later command answered
C4_Witness ==
    /\ response.state = "exhausted"
    /\ Len(response.yielded) = 2
    /\ response.yielded[1] # response.yielded[2]
    /\ nread > response.cmd
    /\ RunOut(nread) # <<>>

(***************************************************************************)
(* C5: when the provider raises during a generate command, before the      *)
(* first token or after some, the responses of that command are the tokens *)
(* streamed so far followed by exactly one error response: no complete, no *)
(* further token, and never no response at all.                            *)
(***************************************************************************)
C5_ErrorEndsStream ==
    response.state = "raised" =>
        /\ RunOut(response.cmd) =
               TokenMsgsOf(response.yielded)
                   \o <<[type |-> "error", error |-> <<"GenerateError">>]>>
        /\ pc # "streaming"

\* the provider raised after a token had been streamed, and a later command ran
C5_Witness ==
    /\ response.state = "raised"
    /\ Len(response.yielded) >= 1
    /\ nread > response.cmd
    /\ RunOut(nread) # <<>>

\* the provider raised before the first token
C5_WitnessNoToken ==
    /\ response.state = "raised"
    /\ response.yielded = <<>>

(***************************************************************************)
(* C6: once the run flag is cleared while a generate command is streaming, *)
(* the main loop prints nothing more: the responses of that command are    *)
(* the tokens streamed until then, with neither complete nor error.        *)
(***************************************************************************)
C6_CancelledStreamUnmarked ==
    /\ []((~running /\ response.state = "active") =>
            /\ RunOut(response.cmd) = TokenMsgsOf(response.yielded)
            /\ \A i \in 1..Len(RunOut(response.cmd)) :
                   RunOut(response.cmd)[i].type \notin {"complete", "error"})
    /\ [][(~running /\ response.state = "active") => AllRunOut' = AllRunOut]_vars

\* the flag was cleared after one token of a generation had been streamed
C6_Witness ==
    /\ ~running
    /\ response.state = "active"
    /\ Len(response.yielded) = 1
    /\ Len(RunOut(response.cmd)) = 1

(***************************************************************************)
(* C7: a generate command read while no model is loaded gets exactly one   *)
(* response, of type "error"; the provider's generate is not called, no    *)
(* token or complete follows, and the loop is back at reading input.       *)
(***************************************************************************)
C7_GenerateWithoutModel ==
    /\ [][ (nread' = nread + 1 /\ IsGenerateLine(line') /\ model = None) =>
             /\ out' = Append(out,
                   [cmd |-> nread', by |-> "run",
                    msg |-> [type |-> "error", error |-> <<"No model loaded">>]])
             /\ UNCHANGED <<daemonState, running, genCall, response>>
             /\ pc' = "loop" ]_vars
    /\ []((IsGenerateLine(line) /\ model = None) =>
            /\ RunOut(nread) = <<[type |-> "error", error |-> <<"No model loaded">>]>>
            /\ genCall = None
            /\ response.state = "none")

\* generate without a model was answered, and the loop is ready again
C7_Witness ==
    /\ IsGenerateLine(line)
    /\ model = None
    /\ pc = "loop"
    /\ nread = 2

(***************************************************************************)
(* C8 as stated: a shutdown command yields exactly one shutdown response,  *)
(* clears the run flag and ends the read loop; no later line is read and   *)
(* no response is printed after the shutdown response.                     *)
(***************************************************************************)
C8_ShutdownCommandIsLast ==
    \A i \in 1..Len(out) :
        (out[i].by = "run" /\ MsgType(out[i].msg) = "shutdown") =>
            /\ i = Len(out)
            /\ nread = out[i].cmd
            /\ ~running
            /\ pc \in {"returned", "exited"}

(***************************************************************************)
(* C9 as stated: the provider's generate receives the command's            *)
(* temperature, top_p and repetition_penalty, or their defaults 0.7, 0.9   *)
(* and 1.0 when the command does not carry them.                           *)
(***************************************************************************)
C9_SamplingParametersPassed ==
    (genCall # None /\ response.cmd = nread) =>
        /\ "temperature" \in DOMAIN genCall[1]
        /\ genCall[1].temperature = Get(line[1].value, "temperature", "0.7")
        /\ "top_p" \in DOMAIN genCall[1]
        /\ genCall[1].top_p = Get(line[1].value, "top_p", "0.9")
        /\ "repetition_penalty" \in DOMAIN genCall[1]
        /\ genCall[1].repetition_penalty = Get(line[1].value, "repetition_penalty", "1.0")

(***************************************************************************)
(* C10: a line that is not JSON gets exactly one error response, leaves    *)
(* the daemon state and the run flag unchanged, calls no provider          *)
(* operation, and leaves the loop reading the next line.                   *)
(***************************************************************************)
C10_MalformedLine ==
    /\ [][ (nread' = nread + 1 /\ ~line'[1].json) =>
             /\ out' = Append(out,
                   [cmd |-> nread', by |-> "run",
                    msg |-> [type |-> "error",
                             error |-> <<"Invalid JSON: ", line'[1].err>>]])
             /\ UNCHANGED <<daemonState, running, loadCalls, genCall>>
             /\ pc' = "loop" ]_vars
    /\ []((line # None /\ ~line[1].json) => Len(RunOut(nread)) = 1)

\* a malformed line was reported while a model was resident, and the next
\* line was read and answered
C10_Witness ==
    /\ model # None
    /\ nread = 3
    /\ RunOut(2) # <<>>
    /\ RunOut(2)[1].type = "error"
    /\ RunOut(2)[1].error[1] = "Invalid JSON: "
    /\ RunOut(3) # <<>>

(***************************************************************************)
(* C11 as stated: over its lifetime the daemon prints exactly one ready    *)
(* response, on entry, before any input line is consumed and before any    *)
(* other response.  Once the process is past its entry point, the first    *)
(* line of its output is therefore the one ready response.                 *)
(***************************************************************************)
C11_ReadyFirstAndOnce ==
    /\ \A i \in 1..Len(out) : MsgType(out[i].msg) = "ready" => i = 1 /\ out[i].cmd = 0
    /\ pc # "start" => (out # <<>> /\ MsgType(out[1].msg) = "ready")

(***************************************************************************)
(* Canonical form of a path: absolute and normalised, a relative path      *)
(* taken from the working directory of the process.                        *)
(***************************************************************************)
Cwd == <<"m">>

Canonical(p) == IF p.abs THEN p ELSE [abs |-> TRUE, parts |-> Cwd \o p.parts]

(***************************************************************************)
(* C12 as stated: model_path holds the canonical absolute form of the      *)
(* loaded path, and a load_model whose path has the same canonical form as *)
(* model_path, a model being resident, is a no-op answered cached=true     *)
(* without a call of the provider's load().                                *)
(***************************************************************************)
C12_CanonicalCacheHit ==
    /\ [](model_path # None => model_path[1] = Canonical(model_path[1]))
    /\ [][ ( /\ nread' = nread + 1
             /\ IsLoadLine(line')
             /\ pathExists'
             /\ model # None
             /\ Canonical(model_path[1])
                  = Canonical(expanduser(Path(line'[1].value.model_path))) )
           => ( /\ LoadAnswered
                /\ LastMsg(out').cached = TRUE
                /\ loadCalls' = loadCalls
                /\ UNCHANGED daemonState ) ]_vars

(***************************************************************************)
(* C13: a status command gets exactly one response, of type "status", with *)
(* running=true, model_loaded telling whether a model is resident, and     *)
(* model_path the resident model's path, or null when none is loaded (so   *)
(* before any load: true, false, null); the daemon state is not touched.   *)
(***************************************************************************)
C13_Status ==
    /\ [][ (nread' = nread + 1 /\ line'[1].json
              /\ Get(line'[1].value, "type", "None") = "status") =>
             /\ out' = Append(out,
                   [cmd |-> nread', by |-> "run",
                    msg |-> [type |-> "status", running |-> TRUE,
                             model_loaded |-> (model # None),
                             model_path |-> IF model # None
                                            THEN <<str(model_path[1])>>
                                            ELSE <<>>]])
             /\ UNCHANGED <<daemonState, running>> ]_vars
    /\ []((line # None /\ line[1].json /\ Get(line[1].value, "type", "None") = "status")
             => Len(RunOut(nread)) = 1)
    /\ []((nread = 1 /\ RunOut(1) # <<>> /\ MsgType(RunOut(1)[1]) = "status") =>
             RunOut(1)[1] = [type |-> "status", running |-> TRUE,
                             model_loaded |-> FALSE, model_path |-> <<>>])

\* status with a model resident, loaded from ~/b
C13_Witness ==
    /\ RunOut(nread) # <<>>
    /\ MsgType(RunOut(nread)[1]) = "status"
    /\ RunOut(nread)[1].model_loaded = TRUE
    /\ RunOut(nread)[1].model_path = <<(<<"/", "home", "/", "b">>)>>

\* status before any load
C13_WitnessBeforeLoad ==
    /\ nread = 1
    /\ RunOut(1) # <<>>
    /\ MsgType(RunOut(1)[1]) = "status"

(***************************************************************************)
(* C14: on end of input the loop ends without printing anything: neither   *)
(* the step that meets EOF nor the main thread after it prints a response, *)
(* so the output of a run ended by EOF carries no shutdown response.       *)
(***************************************************************************)
C14_EofIsSilent ==
    /\ [][ (pc = "loop" /\ pc' = "returned" /\ running') =>
             (out' = out /\ UNCHANGED <<daemonState, nread>>) ]_vars
    /\ [][ (pc = "returned" /\ running) => AllRunOut' = AllRunOut ]_vars
    /\ []((pc \in {"returned", "exited"} /\ running) =>
             \A i \in 1..Len(out) : MsgType(out[i].msg) # "shutdown")

\* the process has ended on EOF after two commands were answered
C14_Witness ==
    /\ pc = "exited"
    /\ running
    /\ nread = 2
    /\ RunOut(2) # <<>>

(***************************************************************************)
(* C15: a line that is JSON but no valid command (its type unrecognised or *)
(* absent, or load_model without model_path, or generate without prompt)   *)
(* gets exactly one response, of type "error", which names the type when   *)
(* it is unrecognised; no provider operation is called, the daemon state   *)
(* is unchanged and the loop is back at reading input.                     *)
(***************************************************************************)
KnownTypes == {"load_model", "generate", "status", "shutdown"}

InvalidCommand(l) ==
    /\ l # None
    /\ l[1].json
    /\ \/ Get(l[1].value, "type", "None") \notin KnownTypes
       \/ Get(l[1].value, "type", "None") = "load_model"
            /\ "model_path" \notin DOMAIN l[1].value
       \/ Get(l[1].value, "type", "None") = "generate"
            /\ "prompt" \notin DOMAIN l[1].value

C15_InvalidCommand ==
    /\ [][ (nread' = nread + 1 /\ InvalidCommand(line')) =>
             /\ Len(out') = Len(out) + 1
             /\ SubSeq(out', 1, Len(out)) = out
             /\ out'[Len(out')].cmd = nread'
             /\ out'[Len(out')].by = "run"
             /\ MsgType(LastMsg(out')) = "error"
             /\ (("type" \in DOMAIN line'[1].value /\ line'[1].value.type \notin KnownTypes)
                   => LastMsg(out').error
                        = <<"Unknown command type: ", line'[1].value.type>>)
             /\ UNCHANGED <<daemonState, running, loadCalls, loadResult, genCall, response>>
             /\ pc' = "loop" ]_vars
    /\ [](InvalidCommand(line) => Len(RunOut(nread)) = 1)

\* a load_model without model_path was reported while a model was resident,
\* and the next line was read and answered
C15_Witness ==
    /\ model # None
    /\ nread = 3
    /\ RunOut(2) # <<>>
    /\ MsgType(RunOut(2)[1]) = "error"
    /\ RunOut(2)[1].error = <<"Unexpected error: ", "'model_path'">>
    /\ RunOut(3) # <<>>

\* an unrecognised type was named in the error
C15_WitnessUnknown ==
    /\ RunOut(nread) # <<>>
    /\ MsgType(RunOut(nread)[1]) = "error"
    /\ RunOut(nread)[1].error = <<"Unknown command type: ", "bogus">>

C17_WitnessLoading ==
    /\ out # <<>>
    /\ out[Len(out)].by = "signal"
    /\ loadResult = "pending"

\* the signal came while the loop waited for input, a command answered before
C17_WitnessWaiting ==
    /\ out # <<>>
    /\ out[Len(out)].by = "signal"
    /\ nread = 1
    /\ RunOut(1) # <<>>
    /\ MsgType(RunOut(1)[1]) = "status"

(***************************************************************************)
(* C18: between commands, after any sequence of them, model and tokenizer  *)
(* are both present or both absent, and model_path is present exactly when *)
(* model is.                                                               *)
(***************************************************************************)
C18_PairInvariant ==
    pc \in {"loop", "returned"} =>
        /\ (model = None) <=> (tokenizer = None)
        /\ (model_path = None) <=> (model = None)

\* a second model has replaced the first, and a later load has failed
C18_Witness ==
    /\ pc = "loop"
    /\ loadCalls = 3
    /\ loadResult = "raised"
    /\ model = <<[handle |-> "model", id |-> 2]>>
    /\ tokenizer = <<[handle |-> "tokenizer", id |-> 2]>>

(***************************************************************************)
(* C19: model, tokenizer and model_path change only where a load_model     *)
(* command's load() returns (so not in generate, status, unknown-type or   *)
(* malformed-line handling, nor on a cache hit), and running changes only  *)
(* from true to false, in the shutdown command or the signal handler.      *)
(***************************************************************************)
C19_Frame ==
    [][ /\ (daemonState' # daemonState) =>
              (pc = "loading" /\ IsLoadLine(line) /\ loadResult' = "ok")
        /\ (running' # running) =>
              /\ running /\ ~running'
              /\ Len(out') = Len(out) + 1
              /\ MsgType(LastMsg(out')) = "shutdown"
              /\ \/ out'[Len(out')].by = "signal"
                 \/ /\ nread' = nread + 1
                    /\ line'[1].json
                    /\ Get(line'[1].value, "type", "None") = "shutdown"
        /\ (nread' = nread + 1 /\ ~IsLoadLine(line')
              /\ ~(line'[1].json /\ Get(line'[1].value, "type", "None") = "shutdown"))
              => UNCHANGED <<daemonState, running>>
        /\ (pc = "streaming" /\ out'[Len(out')].by = "run")
              => UNCHANGED <<daemonState, running>>
        /\ (LoadAnswered /\ LastMsg(out').success /\ LastMsg(out').cached)
              => UNCHANGED <<daemonState, running>> ]_vars

\* a generation failed with a model resident, and the model is still there
\* when the next command, a status, is answered
C19_Witness ==
    /\ response.state = "raised"
    /\ nread = 3
    /\ response.cmd = 2
    /\ RunOut(3) # <<>>
    /\ MsgType(RunOut(3)[1]) = "status"
    /\ RunOut(3)[1].model_loaded

(***************************************************************************)
(* C20 as stated: in every execution, a signal after the shutdown command  *)
(* has run included, at most one shutdown response is printed.             *)
(***************************************************************************)
C20_OneShutdownResponse ==
    Cardinality({i \in 1..Len(out) : MsgType(out[i].msg) = "shutdown"}) <= 1

(***************************************************************************)
(* C16 as stated: in every failure outcome of the transcription utility    *)
(* (no argument, file not found, no library installed, model load failed,  *)
(* transcription failed) it prints one object carrying an error field and  *)
(* exits with a non-zero status.                                           *)
(***************************************************************************)
C16_FailureExitsNonZero ==
    (whisper.pc = "exited" /\ whisper.failure # "none") =>
        /\ whisper.status # <<0>>
        /\ Len(whisper.stdout) = 1
        /\ "error" \in DOMAIN whisper.stdout[1]
====
